---- MODULE Spec2Model ----
(***************************************************************************)
(* Model of @xarc/module-dev: the feature resolver and the package.json    *)
(* reconciliation engine of class XarcModuleDev (src/src/module-dev.ts)    *)
(* with the dependency-section merger of class Feature                     *)
(* (src/src/feature.ts).                                                   *)
(*                                                                         *)
(* A JavaScript object with string keys is an ordered mapping: a sequence  *)
(* of <<key, value>> pairs without repeated keys, in insertion order.      *)
(* A JavaScript array of strings is a sequence of strings.                 *)
(***************************************************************************)
EXTENDS Integers, Sequences, FiniteSets, TLC

\* ------------------------------------------------------------------------
\* Bounds of the model
\* ------------------------------------------------------------------------

\* number of addFeatures / removeFeatures / updateFeature calls in one run
MaxOps == 2

\* ------------------------------------------------------------------------
\* Strings and arrays
\* ------------------------------------------------------------------------

Range(s) == {s[i] : i \in 1..Len(s)}

\* every string the model sorts, in ascending UTF-16 code unit order, the
\* order of Array.prototype.sort() without a comparator
StrOrder ==
  << "*clap.js", "*clap.ts", ".eslintrc.js", "@typescript-eslint/parser",
     "bogus", "chai", "coverage", "dist", "docs", "eslint", "eslintTS",
     "gulpfile.js", "jest", "jestTS", "lcov", "legacy", "lib", "lodash",
     "mocha",
     "prettier", "source-map-support", "tap", "test", "text", "text-summary",
     "ts-jest", "tslib", "typedoc", "typescript", "xrun*.js", "xrun*.ts" >>

StrRank(s) == CHOOSE i \in 1..Len(StrOrder) : StrOrder[i] = s

StrLess(a, b) == StrRank(a) < StrRank(b)

\* Array.prototype.sort() on an array of strings
SortStrings(s) == SortSeq(s, StrLess)

\* _.uniq: the first occurrence of every element, in order
Uniq(s) ==
  LET F[i \in 0..Len(s)] ==
        IF i = 0 THEN << >>
        ELSE IF \E j \in 1..(i - 1) : s[j] = s[i] THEN F[i - 1]
             ELSE Append(F[i - 1], s[i])
  IN F[Len(s)]

\* _.without(array, ...values)
Without(s, values) == SelectSeq(s, LAMBDA x : x \notin Range(values))

\* Array.prototype.includes
Includes(s, x) == x \in Range(s)

NoDup(s) == \A i, j \in 1..Len(s) : i # j => s[i] # s[j]

IsSortedStrings(s) == \A i \in 1..(Len(s) - 1) : StrLess(s[i], s[i + 1])

\* ------------------------------------------------------------------------
\* Ordered mappings (JavaScript objects)
\* ------------------------------------------------------------------------

Keys(m) == [i \in 1..Len(m) |-> m[i][1]]

HasKey(m, k) == \E i \in 1..Len(m) : m[i][1] = k

GetKey(m, k) == m[CHOOSE i \in 1..Len(m) : m[i][1] = k][2]

\* an assignment that leaves the value of an existing key alone
PutKeyKeepOld(m, k, v) == IF HasKey(m, k) THEN m ELSE Append(m, <<k, v>>)

\* obj[k] = v: an existing key keeps its place, a new key goes last
PutKey(m, k, v) ==
  IF HasKey(m, k)
  THEN [i \in 1..Len(m) |-> IF m[i][1] = k THEN <<k, v>> ELSE m[i]]
  ELSE Append(m, <<k, v>>)

\* delete obj[k]
DelKey(m, k) == SelectSeq(m, LAMBDA e : e[1] # k)

\* for (const k in deps) target[k] = deps[k]
PutAll(target, deps) ==
  LET F[i \in 0..Len(deps)] ==
        IF i = 0 THEN target
        ELSE PutKey(F[i - 1], deps[i][1], deps[i][2])
  IN F[Len(deps)]

\* for (const k in deps) delete target[k]
DelAll(target, deps) == SelectSeq(target, LAMBDA e : e[1] \notin Range(Keys(deps)))

EntryLess(a, b) == StrLess(a[1], b[1])

\* a sortObjKeys that copies the keys in their old order
SortObjKeysUnsorted(obj) == obj

\* sortObjKeys: a new object with the keys of obj in sorted order
sortObjKeys(obj) == SortSeq(obj, EntryLess)

\* ------------------------------------------------------------------------
\* The manifest (package.json)
\* ------------------------------------------------------------------------

\* _myPkg.name, the key of the tool's own block in the manifest
ToolKey == "@xarc/module-dev"

\* A manifest is a record: order lists the top-level keys that are present,
\* in insertion order; every other field holds the value of one top-level
\* key (the empty sequence while the key is absent).
\*   name                          a string
\*   dependencies devDependencies  mapping package -> version
\*   scripts                       mapping script name -> command
\*   files                         array of strings
\*   ToolKey                       mapping key -> array of strings
\*   prettier jest mocha tap nyc   mapping option -> JSON text of its value
EmptyPkg ==
  [ order |-> << >>, name |-> "", dependencies |-> << >>,
    devDependencies |-> << >>, scripts |-> << >>, files |-> << >>,
    tool |-> << >>, prettier |-> << >>, jest |-> << >>, mocha |-> << >>,
    tap |-> << >>, nyc |-> << >> ]

\* the record field that holds the value of a top-level key
Field(key) == IF key = ToolKey THEN "tool" ELSE key

HasTop(pkg, key) == Includes(pkg.order, key)

\* _.get(pkg, key, {})
GetTop(pkg, key) == IF HasTop(pkg, key) THEN pkg[Field(key)] ELSE << >>

\* pkg[key] = value  /  _.set(pkg, key, value)
SetTop(pkg, key, value) ==
  [pkg EXCEPT ![Field(key)] = value,
              !.order = IF Includes(@, key) THEN @ ELSE Append(@, key)]

\* delete pkg[key]
DeleteTop(pkg, key) ==
  [pkg EXCEPT ![Field(key)] = << >>, !.order = Without(@, <<key>>)]

\* concatenation of a sequence of sequences
Flatten(ss) ==
  LET F[i \in 0..Len(ss)] == IF i = 0 THEN << >> ELSE F[i - 1] \o ss[i]
  IN F[Len(ss)]

\* JSON text of a mapping whose values are strings
StrMapText(m) ==
  <<"{">> \o Flatten([i \in 1..Len(m) |-> <<m[i][1], ":", m[i][2]>>]) \o <<"}">>

\* JSON text of an array of strings
ListText(l) == <<"[">> \o l \o <<"]">>

\* JSON text of a mapping whose values are arrays of strings
ListMapText(m) ==
  <<"{">> \o Flatten([i \in 1..Len(m) |-> <<m[i][1], ":">> \o ListText(m[i][2])])
    \o <<"}">>

\* JSON text of a mapping whose values are kept as JSON text
TextMapText(m) ==
  <<"{">> \o Flatten([i \in 1..Len(m) |-> <<m[i][1], ":">> \o m[i][2]]) \o <<"}">>

ValueText(pkg, key) ==
  CASE key = "name" -> <<pkg.name>>
    [] key \in {"dependencies", "devDependencies", "scripts"} ->
         StrMapText(pkg[key])
    [] key = "files" -> ListText(pkg.files)
    [] key = ToolKey -> ListMapText(pkg.tool)
    [] OTHER -> TextMapText(pkg[key])

\* JSON.stringify(pkg): the top-level keys in insertion order, each followed
\* by the text of its value
Stringify(pkg) ==
  <<"{">> \o
  Flatten([i \in 1..Len(pkg.order) |->
             <<pkg.order[i], ":">> \o ValueText(pkg, pkg.order[i])])
  \o <<"}">>

\* ------------------------------------------------------------------------
\* class Feature (src/src/feature.ts)
\* ------------------------------------------------------------------------

\* Feature.update(pkg, deps, section)
update(pkg, deps, section) ==
  LET target == PutAll(GetTop(pkg, section), deps)
  IN IF target # << >> THEN SetTop(pkg, section, sortObjKeys(target)) ELSE pkg

\* a remove that stores the section also when nothing is left in it
RemoveKeepingEmpty(pkg, deps, section) ==
  SetTop(pkg, section, sortObjKeys(DelAll(GetTop(pkg, section), deps)))

\* Feature.remove(pkg, deps, section)
remove(pkg, deps, section) ==
  LET target == DelAll(GetTop(pkg, section), deps)
  IN IF target = << >> THEN DeleteTop(pkg, section)
     ELSE SetTop(pkg, section, sortObjKeys(target))

\* Feature.updateToPkg(pkg), for the feature with descriptor feat
updateToPkg(feat, pkg) ==
  update(update(pkg, feat.deps, "dependencies"), feat.devDeps, "devDependencies")

\* a removeFromPkg that forgets the runtime dependencies
RemoveFromPkgDevOnly(feat, pkg) == remove(pkg, feat.devDeps, "devDependencies")

\* Feature.removeFromPkg(pkg)
removeFromPkg(feat, pkg) ==
  remove(remove(pkg, feat.deps, "dependencies"), feat.devDeps, "devDependencies")

\* Feature.check(deps, target)
check(deps, target) == \A i \in 1..Len(deps) : HasKey(target, deps[i][1])

\* Feature.checkPkg(pkg)
checkPkg(feat, pkg) ==
  /\ check(feat.deps, GetTop(pkg, "dependencies"))
  /\ check(feat.devDeps, GetTop(pkg, "devDependencies"))

\* ------------------------------------------------------------------------
\* The feature catalog
\* ------------------------------------------------------------------------

\* version written by the catalog, and a version a user wrote by hand
NewVer == "^2"
OldVer == "^1"

\* _availableFeatures: feature name -> dependencies of its descriptor, as
\* setupAvailableFeatures reads them from config/<feature>/package.json.
\* typescript and mocha share a package.
availableFeatures ==
  [ typedoc |-> [deps |-> << >>, devDeps |-> << <<"typedoc", NewVer>> >>],
    typescript |->
      [deps |-> << <<"tslib", NewVer>> >>,
       devDeps |-> << <<"source-map-support", NewVer>>, <<"typescript", NewVer>> >>],
    eslint |-> [deps |-> << >>, devDeps |-> << <<"eslint", NewVer>> >>],
    eslintTS |->
      [deps |-> << >>, devDeps |-> << <<"@typescript-eslint/parser", NewVer>> >>],
    mocha |->
      [deps |-> << >>,
       devDeps |-> << <<"mocha", NewVer>>, <<"source-map-support", NewVer>> >>],
    tap |-> [deps |-> << >>, devDeps |-> << <<"tap", NewVer>> >>],
    prettier |-> [deps |-> << >>, devDeps |-> << <<"prettier", NewVer>> >>],
    jest |-> [deps |-> << >>, devDeps |-> << <<"jest", NewVer>> >>],
    jestTS |-> [deps |-> << >>, devDeps |-> << <<"ts-jest", NewVer>> >>] ]

FeatureNames == DOMAIN availableFeatures

\* ------------------------------------------------------------------------
\* class XarcModuleDev (src/src/module-dev.ts)
\*
\* The instance is a record with the fields of the class (without the
\* leading underscore) and threw, which is TRUE once a method has raised.
\* ------------------------------------------------------------------------

\* one entry of _actionRecords: the message and the values printed in it
Record(msg, args) == [msg |-> msg, args |-> args]

\* recordAction(msg)
recordAction(dev, rec) == [dev EXCEPT !.actionRecords = Append(@, rec)]

\* the features updateFeaturesFromDeps looks for, in the order of its result
FromDepsNames == <<"eslint", "typescript", "typedoc", "mocha", "tap">>

\* updateFeaturesFromDeps: the names whose checkPkg is true
updateFeaturesFromDeps(pkg) ==
  SelectSeq(FromDepsNames, LAMBDA k : checkPkg(availableFeatures[k], pkg))

\* the stored feature list, _.get(pkg, [ToolKey, "features"], [])
StoredFeatures(pkg) ==
  IF HasKey(GetTop(pkg, ToolKey), "features")
  THEN GetKey(GetTop(pkg, ToolKey), "features") ELSE << >>

\* loadAppPkg(): reads package.json
loadAppPkg(dev) ==
  [dev EXCEPT
     !.appPkg = dev.packageJson,
     !.existAppPkgData = Stringify(dev.packageJson),
     !.existFeatures =
        SortStrings(Uniq(updateFeaturesFromDeps(dev.packageJson)
                           \o StoredFeatures(dev.packageJson)))]

\* compilerOptions.types of the constructor's defaultTsConfig
DefaultTsTypes == <<"node">>

\* _.merge of two arrays: index by index, the source's element wins
MergeArrays(dst, src) ==
  [i \in 1..(IF Len(dst) > Len(src) THEN Len(dst) ELSE Len(src)) |->
     IF i <= Len(src) THEN src[i] ELSE dst[i]]

\* a tsconfig is the record of its compilerOptions.types; a tsconfig.json
\* file adds exists, FALSE while there is no file
NoTsFile == [exists |-> FALSE, types |-> << >>]

\* readTsConfig() merged over the default: _.merge({}, defaultTsConfig, exist)
MergedTsConfig(tsFile) ==
  [types |-> IF tsFile.exists THEN MergeArrays(DefaultTsTypes, tsFile.types)
             ELSE DefaultTsTypes]

\* the constructor, in a directory that holds the files pkgFile and tsFile.
\* packageJson and tsconfigJson are the two files, kept with the instance.
construct(pkgFile, tsFile) ==
  LET loaded ==
        loadAppPkg([appPkg |-> EmptyPkg, existAppPkgData |-> << >>,
                    existFeatures |-> << >>, features |-> << >>,
                    removedFeatures |-> << >>, changedFeatures |-> << >>,
                    depsChanges |-> << >>, actionRecords |-> << >>,
                    tsConfig |-> MergedTsConfig(tsFile),
                    packageJson |-> pkgFile, tsconfigJson |-> tsFile,
                    threw |-> FALSE])
  IN [loaded EXCEPT !.features = loaded.existFeatures]

\* hasFeature(feature)
hasFeature(dev, feature) == Includes(dev.features, feature)

\* an updateFeatures that keeps the order in which the names came
UpdateFeaturesUnsorted(dev, fs) == [dev EXCEPT !.features = Uniq(fs)]

\* updateFeatures(features)
updateFeatures(dev, fs) == [dev EXCEPT !.features = Uniq(SortStrings(fs))]

\* appPkgChanged()
appPkgChanged(dev) == dev.existAppPkgData # Stringify(dev.appPkg)

\* appHasDevDeps(dep)
appHasDevDeps(dev, dep) == HasKey(GetTop(dev.appPkg, "devDependencies"), dep)

\* recordAction(msg) when appPkgChanged()
recordIfChanged(dev, msg) ==
  IF appPkgChanged(dev) THEN recordAction(dev, Record(msg, << >>)) ELSE dev

MochaTypes == <<"mocha", "chai", "sinon", "sinon-chai">>

\* updateTsConfigTypes()
updateTsConfigTypes(dev) ==
  IF ~hasFeature(dev, "typescript") THEN dev
  ELSE LET types == dev.tsConfig.types
           t1 == IF hasFeature(dev, "jestTS") THEN Append(types, "jest")
                 ELSE Without(types, <<"jest">>)
           t2 == IF hasFeature(dev, "mocha") THEN t1 \o MochaTypes
                 ELSE Without(t1, MochaTypes)
           set == [dev EXCEPT !.tsConfig.types = Uniq(t2)]
       IN IF set.tsConfig # dev.tsConfig
          THEN recordAction(set, Record("updated tsconfig.json", << >>))
          ELSE set

\* setupTsConfig(); fail: writing tsconfig.json raises
setupTsConfig(dev, fail) ==
  IF dev.threw \/ ~hasFeature(dev, "typescript") THEN dev
  ELSE IF fail THEN [dev EXCEPT !.threw = TRUE]
  ELSE [dev EXCEPT !.tsconfigJson = [exists |-> TRUE, types |-> dev.tsConfig.types]]

\* AddImplied without the rule that typedoc needs typescript
AddImpliedNoTypedocRule(fs) ==
  LET n1 == IF Includes(fs, "typescript") /\ Includes(fs, "eslint")
            THEN Append(fs, "eslintTS") ELSE fs
      n2 == IF Includes(n1, "jest") /\ Includes(n1, "typescript")
            THEN Append(n1, "jestTS") ELSE n1
  IN Uniq(n2)

\* the three implication rules of addFeatures, applied in the code's order
AddImplied(fs) ==
  LET n1 == IF Includes(fs, "typescript") /\ Includes(fs, "eslint")
            THEN Append(fs, "eslintTS") ELSE fs
      n2 == IF Includes(n1, "jest") /\ Includes(n1, "typescript")
            THEN Append(n1, "jestTS") ELSE n1
      n3 == IF Includes(n2, "typedoc") THEN Append(n2, "typescript") ELSE n2
  IN Uniq(n3)

\* the loop of addFeatures over the resolved features
addLoop(dev, newFeatures) ==
  LET Loop[i \in 0..Len(newFeatures)] ==
        IF i = 0 THEN dev
        ELSE LET d == Loop[i - 1]
                 f == newFeatures[i]
             IN IF d.threw \/ Includes(dev.features, f) THEN d
                ELSE IF f \notin FeatureNames THEN [d EXCEPT !.threw = TRUE]
                ELSE recordAction(
                       [d EXCEPT !.appPkg = updateToPkg(availableFeatures[f], @),
                                 !.changedFeatures = Append(@, f)],
                       Record("added support for", <<f>>))
  IN Loop[Len(newFeatures)]

\* the end of addFeatures: _depsChanges takes the changed features
addDepsChanges(dev) ==
  IF appPkgChanged(dev)
  THEN [dev EXCEPT !.depsChanges = @ \o dev.changedFeatures]
  ELSE dev

\* an end of addFeatures that also stores the feature list in the manifest
AddAfterLoopStoring(looped, newFeatures) ==
  IF looped.threw THEN looped
  ELSE LET d == updateFeatures(looped, newFeatures)
       IN addDepsChanges(
            [d EXCEPT !.appPkg =
               SetTop(@, ToolKey,
                      PutKey(GetTop(@, ToolKey), "features", d.features))])

\* addFeatures after its loop
addAfterLoop(looped, newFeatures) ==
  IF looped.threw THEN looped
  ELSE addDepsChanges(updateFeatures(looped, newFeatures))

\* an addFeatures that resolves the request without the current features
AddFeaturesRequestOnly(dev, req) ==
  addAfterLoop(addLoop(dev, AddImplied(req)), AddImplied(req))

\* addFeatures(...features)
addFeatures(dev, req) ==
  addAfterLoop(addLoop(dev, AddImplied(dev.features \o req)),
               AddImplied(dev.features \o req))

\* refreshFeatureDeps()
refreshFeatureDeps(dev) ==
  LET Loop[i \in 0..Len(dev.features)] ==
        IF i = 0 THEN dev
        ELSE LET d == Loop[i - 1]
                 f == dev.features[i]
             IN IF d.threw THEN d
                ELSE IF f \notin FeatureNames THEN [d EXCEPT !.threw = TRUE]
                ELSE [d EXCEPT !.appPkg = updateToPkg(availableFeatures[f], @)]
  IN Loop[Len(dev.features)]

\* Removing without the rule that typedoc goes with typescript
RemovingNoTypedocRule(fs, req) ==
  LET newFeatures == Uniq(Without(fs, req))
      r1 == IF ~Includes(newFeatures, "typescript") \/ ~Includes(newFeatures, "eslint")
            THEN Append(req, "eslintTS") ELSE req
      r2 == IF ~Includes(newFeatures, "typescript") \/ ~Includes(newFeatures, "jest")
            THEN Append(r1, "jestTS") ELSE r1
  IN Uniq(r2)

\* the names removeFeatures removes: the request and the cascade, evaluated
\* on the features that remain after the request is taken out
Removing(fs, req) ==
  LET newFeatures == Uniq(Without(fs, req))
      r1 == IF ~Includes(newFeatures, "typescript") \/ ~Includes(newFeatures, "eslint")
            THEN Append(req, "eslintTS") ELSE req
      r2 == IF ~Includes(newFeatures, "typescript") \/ ~Includes(newFeatures, "jest")
            THEN Append(r1, "jestTS") ELSE r1
      r3 == IF ~Includes(newFeatures, "typescript")
            THEN Append(r2, "typedoc") ELSE r2
  IN Uniq(r3)

\* a loop of removeFeatures that does not ask whether the name is active
RemoveLoopUnguarded(dev, removing) ==
  LET Loop[i \in 0..Len(removing)] ==
        IF i = 0 THEN dev
        ELSE LET d == Loop[i - 1]
                 f == removing[i]
             IN IF d.threw THEN d
                ELSE IF f \notin FeatureNames
                     THEN [d EXCEPT !.removedFeatures = Append(@, f),
                                    !.threw = TRUE]
                ELSE recordAction(
                       [d EXCEPT !.removedFeatures = Append(@, f),
                                 !.appPkg = removeFromPkg(availableFeatures[f], @)],
                       Record("removed support for", <<f>>))
  IN Loop[Len(removing)]

\* the loop of removeFeatures over the names it removes
removeLoop(dev, removing) ==
  LET Loop[i \in 0..Len(removing)] ==
        IF i = 0 THEN dev
        ELSE LET d == Loop[i - 1]
                 f == removing[i]
             IN IF d.threw \/ ~Includes(dev.features, f) THEN d
                ELSE IF f \notin FeatureNames
                     THEN [d EXCEPT !.removedFeatures = Append(@, f),
                                    !.threw = TRUE]
                ELSE recordAction(
                       [d EXCEPT !.removedFeatures = Append(@, f),
                                 !.appPkg = removeFromPkg(availableFeatures[f], @)],
                       Record("removed support for", <<f>>))
  IN Loop[Len(removing)]

\* the end of removeFeatures: _depsChanges takes the removed features
removeDepsChanges(dev) ==
  IF ~dev.threw /\ appPkgChanged(dev)
  THEN [dev EXCEPT !.depsChanges = @ \o dev.removedFeatures]
  ELSE dev

\* removeFeatures after its loop
removeAfterLoop(looped, newFeatures, fail) ==
  IF looped.threw THEN looped
  ELSE removeDepsChanges(
         setupTsConfig(updateTsConfigTypes(updateFeatures(looped, newFeatures)), fail))

\* removeFeatures(...features); fail: writing tsconfig.json raises
removeFeatures(dev, req, fail) ==
  removeAfterLoop(removeLoop(dev, Removing(dev.features, req)),
                  Without(Uniq(Without(dev.features, req)),
                          Removing(dev.features, req)),
                  fail)

\* the end of updateFeature: the tsconfig is brought up to date and written
updateTsConfig(dev, fail) ==
  IF dev.threw THEN dev ELSE setupTsConfig(updateTsConfigTypes(dev), fail)

\* a remove branch without refreshFeatureDeps()
NoRefreshAfterRemove(removed) == removed

\* the remove branch of updateFeature, after removeFeatures
refreshAfterRemove(removed) ==
  IF removed.threw THEN removed ELSE refreshFeatureDeps(removed)

\* makeTasks.updateFeature(remove, ...features); fail: the first write of
\* tsconfig.json raises
updateFeature(dev, rm, req, fail) ==
  IF rm
  THEN updateTsConfig(refreshAfterRemove(removeFeatures(dev, req, fail)), FALSE)
  ELSE updateTsConfig(addFeatures(dev, req), fail)

\* ------------------------------------------------------------------------
\* The setup and teardown callbacks of the features
\* ------------------------------------------------------------------------

\* _.defaults(obj, {k: v}) and obj[k] ??= v
Defaults(m, k, v) == IF HasKey(m, k) THEN m ELSE Append(m, <<k, v>>)

\* the array whose JSON text is t, and the array opts[k] || []
ListOfText(t) == SubSeq(t, 2, Len(t) - 1)
ListOpt(opts, k) == IF HasKey(opts, k) THEN ListOfText(GetKey(opts, k)) ELSE << >>

\* pkg.scripts = { ...pkg.scripts, test: ..., coverage: ... }
WithTestScripts(pkg) ==
  SetTop(pkg, "scripts",
         PutKey(PutKey(GetTop(pkg, "scripts"), "test", "xrun xarc/test-only"),
                "coverage", "xrun xarc/test-cov"))

\* setupCompileScripts()
setupCompileScripts(dev) ==
  IF ~hasFeature(dev, "typescript") THEN dev
  ELSE LET scripts == GetTop(dev.appPkg, "scripts")
           prepublish == IF hasFeature(dev, "typedoc")
                         THEN "xrun --serial [[build, docs], xarc/check]"
                         ELSE "xrun --serial [[build], xarc/check]"
       IN recordIfChanged(
            [dev EXCEPT !.appPkg =
               SetTop(@, "scripts",
                      PutKey(PutAll(<< <<"build", "tsc">> >>, scripts),
                             "prepublishOnly", prepublish))],
            "added npm scripts for your typescript and release lifecycle")

\* setupTypedocScripts()
setupTypedocScripts(dev) ==
  IF ~hasFeature(dev, "typedoc") THEN dev
  ELSE [dev EXCEPT !.appPkg =
          SetTop(@, "scripts",
                 Defaults(GetTop(dev.appPkg, "scripts"), "docs", "xrun xarc/docs"))]

TsNodeReg == "ts-node/register"
SourceMapReg == "source-map-support/register"

\* setupTapConfig()
setupTapConfig(dev) ==
  LET tapOpts == GetTop(dev.appPkg, "tap")
      withTap == SetTop(dev.appPkg, "tap", tapOpts)
      d1 == Defaults(tapOpts, "ts", <<"false">>)
      d2 == Defaults(d1, "test-regex", <<"(^test/spec/.*).([mc]js|[jt]sx?)">>)
      d3 == Defaults(d2, "check-coverage", <<"true">>)
      d4 == Defaults(d3, "branches", <<"100">>)
      d5 == Defaults(d4, "functions", <<"100">>)
      d6 == Defaults(d5, "lines", <<"100">>)
      d7 == Defaults(d6, "statements", <<"100">>)
      a0 == ListOpt(tapOpts, "node-arg")
      a1 == IF appHasDevDeps(dev, "ts-node") /\ ~Includes(a0, TsNodeReg)
            THEN a0 \o <<"-r", TsNodeReg>> ELSE a0
      a2 == IF appHasDevDeps(dev, "source-map-support") /\ ~Includes(a1, SourceMapReg)
            THEN a1 \o <<"-r", SourceMapReg>> ELSE a1
  IN recordIfChanged(
       [dev EXCEPT !.appPkg =
          SetTop(WithTestScripts(withTap), "tap", PutKey(d7, "node-arg", ListText(a2)))],
       "updated tap options in your package.json")

\* setupMochaConfig()
setupMochaConfig(dev) ==
  LET mochaOpts == GetTop(dev.appPkg, "mocha")
      withMocha == SetTop(dev.appPkg, "mocha", mochaOpts)
      testSetup == IF appHasDevDeps(dev, ToolKey)
                   THEN "@xarc/module-dev/config/test/setup.js"
                   ELSE "./config/test/setup.js"
      r0 == Without(ListOpt(mochaOpts, "require"), <<TsNodeReg, SourceMapReg, testSetup>>)
      r1 == IF appHasDevDeps(dev, "ts-node") THEN Append(r0, TsNodeReg) ELSE r0
      r2 == IF appHasDevDeps(dev, "source-map-support")
            THEN Append(r1, SourceMapReg) ELSE r1
      r3 == Uniq(Append(r2, testSetup))
  IN recordIfChanged(
       [dev EXCEPT !.appPkg =
          SetTop(WithTestScripts(withMocha), "mocha",
                 Defaults(PutKey(mochaOpts, "require", ListText(r3)),
                          "recursive", <<"true">>))],
       "updated mocha options in your package.json")

TsJestPattern == "^.+\\.(ts|tsx)$"

\* setupJestConfig()
setupJestConfig(dev) ==
  LET jestOpts == GetTop(dev.appPkg, "jest")
      opts == IF hasFeature(dev, "typescript")
              THEN Defaults(jestOpts, "transform",
                            <<"{", TsJestPattern, ":", "ts-jest", "}">>)
              ELSE jestOpts
  IN recordIfChanged(
       [dev EXCEPT !.appPkg = SetTop(WithTestScripts(@), "jest", opts)],
       "update jest options in your package.json")

\* setupPrettierConfig()
setupPrettierConfig(dev) ==
  recordIfChanged(
    [dev EXCEPT !.appPkg =
       SetTop(@, "prettier",
              Defaults(GetTop(dev.appPkg, "prettier"), "printWidth", <<"100">>))],
    "add prettier config to your package.json")

\* removeMochaConfig(), removeTapConfig(), removePrettierConfig()
removeConfig(dev, key, msg) ==
  recordIfChanged([dev EXCEPT !.appPkg = DeleteTop(@, key)], msg)

\* the index of key k in the JSON text t of a mapping, 0 if it has none
TextKeyAt(t, k) ==
  IF \E i \in 2..(Len(t) - 2) : t[i] = k /\ t[i + 1] = ":"
  THEN CHOOSE i \in 2..(Len(t) - 2) : t[i] = k /\ t[i + 1] = ":"
  ELSE 0

\* removeJestConfig()
removeJestConfig(dev) ==
  LET jest == GetTop(dev.appPkg, "jest")
      transform == IF HasKey(jest, "transform") THEN GetKey(jest, "transform")
                   ELSE <<"{", "}">>
      at == TextKeyAt(transform, TsJestPattern)
      cut == SubSeq(transform, 1, at - 1) \o SubSeq(transform, at + 3, Len(transform))
      jest1 == IF cut = <<"{", "}">> THEN DelKey(jest, "transform")
               ELSE PutKey(jest, "transform", cut)
      pkg1 == IF jest1 = << >> THEN DeleteTop(dev.appPkg, "jest")
              ELSE SetTop(dev.appPkg, "jest", jest1)
  IN recordIfChanged(IF at = 0 THEN dev ELSE [dev EXCEPT !.appPkg = pkg1],
                     "removed jest config from your package.json")

NycConfigTs == "@istanbuljs/nyc-config-typescript"
NycReporters == <<"lcov", "text", "text-summary">>
NycExcludes ==
  <<"coverage", "docs", "xrun*.js", "xrun*.ts", "*clap.js", "*clap.ts",
    "gulpfile.js", "dist", "test", ".eslintrc.js">>

\* setupCoverage()
setupCoverage(dev) ==
  LET nyc == GetTop(dev.appPkg, "nyc")
      ts == hasFeature(dev, "typescript")
      e0 == Without(ListOpt(nyc, "extends"), <<NycConfigTs>>)
      e1 == IF ts THEN Append(e0, NycConfigTs) ELSE e0
      n0 == PutKey(nyc, "extends", ListText(Uniq(e1)))
      n1 == Defaults(n0, "all", <<"true">>)
      n2 == Defaults(n1, "reporter", ListText(<< >>))
      n3 == Defaults(n2, "exclude", ListText(<< >>))
      n4 == Defaults(n3, "check-coverage", <<"true">>)
      n5 == Defaults(n4, "statements", <<"100">>)
      n6 == Defaults(n5, "branches", <<"100">>)
      n7 == Defaults(n6, "functions", <<"100">>)
      n8 == Defaults(n7, "lines", <<"100">>)
      n9 == Defaults(n8, "cache", IF ts THEN <<"false">> ELSE <<"true">>)
      n10 == PutKey(n9, "reporter",
                    ListText(Uniq(SortStrings(ListOpt(n9, "reporter") \o NycReporters))))
      n11 == PutKey(n10, "exclude",
                    ListText(Uniq(SortStrings(ListOpt(n10, "exclude") \o NycExcludes))))
  IN recordIfChanged([dev EXCEPT !.appPkg = SetTop(@, "nyc", n11)],
                     "updated nyc config in your package.json")

\* the features whose setup callback writes a file
WritingSetups == {"typescript", "eslint"}

\* Feature.finishUpdate() of feature f; fail: its file write raises
finishUpdate(dev, f, fail) ==
  CASE f = "typedoc" -> setupTypedocScripts(dev)
    [] f = "typescript" ->
         setupTsConfig(updateTsConfigTypes(setupCompileScripts(dev)), fail)
    [] f = "eslint" -> IF fail THEN [dev EXCEPT !.threw = TRUE] ELSE dev
    [] f = "mocha" -> setupCoverage(setupMochaConfig(dev))
    [] f = "tap" -> setupTapConfig(dev)
    [] f = "prettier" -> setupPrettierConfig(dev)
    [] f = "jest" -> setupJestConfig(dev)
    [] OTHER -> dev

\* Feature.finishRemove() of feature f
finishRemove(dev, f) ==
  CASE f = "mocha" ->
         removeConfig(dev, "mocha", "removed mocha config from your package.json")
    [] f = "tap" ->
         removeConfig(dev, "tap", "removed tap config from your package.json")
    [] f = "prettier" ->
         removeConfig(dev, "prettier", "removed prettier config from your package.json")
    [] f = "jest" -> removeJestConfig(dev)
    [] OTHER -> dev

\* ------------------------------------------------------------------------
\* finish()
\* ------------------------------------------------------------------------

\* a saveAppPkgJson() that does not compare with the serialization at load
SaveAlways(dev) == TRUE

\* saveAppPkgJson() returns true
saveNeeded(dev) == dev.existAppPkgData # Stringify(dev.appPkg)

\* saveAppPkgJson(), with writeAppPkgJson
saveAppPkgJson(dev) ==
  IF saveNeeded(dev)
  THEN [dev EXCEPT !.existAppPkgData = Stringify(dev.appPkg),
                   !.packageJson = dev.appPkg]
  ELSE dev

\* the loops of finish() the other way round: setup callbacks first
FinishCallbacksSetupsFirst(dev, failAt) ==
  LET removed == dev.removedFeatures
      changed == dev.changedFeatures
      Setup[i \in 0..Len(changed)] ==
        IF i = 0 THEN [dev |-> dev, calls |-> << >>]
        ELSE LET prev == Setup[i - 1]
             IN IF prev.dev.threw THEN prev
                ELSE [dev |-> finishUpdate(prev.dev, changed[i], i = failAt),
                      calls |-> Append(prev.calls, <<"finishUpdate", changed[i]>>)]
      Teardown[i \in 0..Len(removed)] ==
        IF i = 0 THEN Setup[Len(changed)]
        ELSE LET prev == Teardown[i - 1]
             IN IF prev.dev.threw THEN prev
                ELSE [dev |-> finishRemove(prev.dev, removed[i]),
                      calls |-> Append(prev.calls, <<"finishRemove", removed[i]>>)]
  IN Teardown[Len(removed)]

\* the loops of finish(): finishRemove() of every removed feature, then
\* finishUpdate() of every changed feature.  failAt: the setup callback of
\* _changedFeatures[failAt] raises (0: none does).  The result is the
\* instance with calls, the callbacks in the order they were made.
finishCallbacks(dev, failAt) ==
  LET removed == dev.removedFeatures
      changed == dev.changedFeatures
      Teardown[i \in 0..Len(removed)] ==
        IF i = 0 THEN [dev |-> dev, calls |-> << >>]
        ELSE LET prev == Teardown[i - 1]
             IN [dev |-> finishRemove(prev.dev, removed[i]),
                 calls |-> Append(prev.calls, <<"finishRemove", removed[i]>>)]
      Setup[i \in 0..Len(changed)] ==
        IF i = 0 THEN Teardown[Len(removed)]
        ELSE LET prev == Setup[i - 1]
             IN IF prev.dev.threw THEN prev
                ELSE [dev |-> finishUpdate(prev.dev, changed[i], i = failAt),
                      calls |-> Append(prev.calls, <<"finishUpdate", changed[i]>>)]
  IN Setup[Len(changed)]

\* a finish() that leaves the stored feature list as it was loaded
KeepStoredFeatures(dev) == dev

\* _.set(this._appPkg, [this._myPkg.name, "features"], this._features)
setStoredFeatures(dev) ==
  [dev EXCEPT !.appPkg =
     SetTop(@, ToolKey, PutKey(GetTop(dev.appPkg, ToolKey), "features", dev.features))]

\* the records finish() adds after saveAppPkgJson() returned true
recordSaved(dev) ==
  recordAction(
    IF Len(dev.depsChanges) > 0
    THEN recordAction(
           recordAction(dev, Record("dependencies changed by these features",
                                    dev.depsChanges)),
           Record("Please run 'npm install'", << >>))
    ELSE dev,
    Record("Your package.json has been updated", << >>))

\* the end of finish(), after the callbacks returned: the stored feature
\* list is set, and the manifest is saved
finishSave(dev, calls) ==
  IF saveNeeded(dev)
  THEN [dev |-> recordSaved(saveAppPkgJson(dev)),
        calls |-> Append(calls, <<"writeAppPkgJson", "package.json">>)]
  ELSE [dev |-> dev, calls |-> calls]

\* a finish() that goes on to save after a callback raised
FinishAfterIgnoringRaise(called) ==
  finishSave(setStoredFeatures(called.dev), called.calls)

\* finish() once the callbacks are through
finishAfter(called) ==
  IF called.dev.threw THEN called
  ELSE finishSave(setStoredFeatures(called.dev), called.calls)

\* finish()
finish(dev, failAt) == finishAfter(finishCallbacks(dev, failAt))

\* ------------------------------------------------------------------------
\* The projects the tool is started in
\* ------------------------------------------------------------------------

\* the manifest with the given top-level keys, in the given order
MakePkg(kvs) ==
  LET F[i \in 0..Len(kvs)] ==
        IF i = 0 THEN EmptyPkg ELSE SetTop(F[i - 1], kvs[i][1], kvs[i][2])
  IN F[Len(kvs)]

StoredList(fs) == <<ToolKey, << <<"features", fs>> >> >>

\* what `npm init` leaves
FreshPkg == MakePkg(<< <<"name", "app">> >>)

\* eslint is active because its dependency is there
EslintPkg ==
  MakePkg(<< <<"name", "app">>,
             <<"devDependencies", << <<"eslint", NewVer>> >> >> >>)

\* a dependency of the user, and an empty devDependencies section
EmptySectionPkg ==
  MakePkg(<< <<"name", "app">>,
             <<"dependencies", << <<"lodash", OldVer>> >> >>,
             <<"devDependencies", << >> >> >>)

\* a section the user wrote, not in key order; tap is active
UnsortedPkg ==
  MakePkg(<< <<"name", "app">>,
             <<"devDependencies", << <<"tap", NewVer>>, <<"chai", OldVer>> >> >> >>)

\* the user depends on an older typescript; the feature is not active
OldTypescriptPkg ==
  MakePkg(<< <<"name", "app">>,
             <<"devDependencies", << <<"typescript", OldVer>> >> >> >>)

\* typescript, eslint, eslintTS and typedoc are active
CascadePkg ==
  MakePkg(<< <<"name", "app">>,
             <<"dependencies", << <<"tslib", NewVer>> >> >>,
             <<"devDependencies",
               << <<"@typescript-eslint/parser", NewVer>>, <<"eslint", NewVer>>,
                  <<"source-map-support", NewVer>>, <<"typedoc", NewVer>>,
                  <<"typescript", NewVer>> >> >>,
             StoredList(<<"eslint", "eslintTS", "typedoc", "typescript">>) >>)

\* prettier is active by the stored list alone
StoredOnlyPkg ==
  MakePkg(<< <<"name", "app">>,
             <<"scripts", << <<"test", "mocha">> >> >>,
             StoredList(<<"prettier">>) >>)

\* the stored list names a feature the catalog does not have
LegacyPkg ==
  MakePkg(<< <<"name", "app">>,
             <<"devDependencies", << <<"jest", NewVer>> >> >>,
             StoredList(<<"jest", "legacy">>) >>)

\* typescript and mocha, which share source-map-support
TsMochaPkg ==
  MakePkg(<< <<"name", "app">>,
             <<"dependencies", << <<"tslib", NewVer>> >> >>,
             <<"devDependencies",
               << <<"mocha", NewVer>>, <<"source-map-support", NewVer>>,
                  <<"typescript", NewVer>> >> >>,
             StoredList(<<"mocha", "typescript">>) >>)

\* jest with typescript
JestTsPkg ==
  MakePkg(<< <<"name", "app">>,
             <<"dependencies", << <<"tslib", NewVer>> >> >>,
             <<"devDependencies",
               << <<"jest", NewVer>>, <<"source-map-support", NewVer>>,
                  <<"ts-jest", NewVer>>, <<"typescript", NewVer>> >> >>,
             <<"jest", << <<"transform", <<"{", TsJestPattern, ":", "ts-jest", "}">> >> >> >>,
             StoredList(<<"jest", "jestTS", "typescript">>) >>)

\* the user installed prettier by hand; no stored feature list
PrettierDepPkg ==
  MakePkg(<< <<"name", "app">>,
             <<"devDependencies", << <<"prettier", OldVer>> >> >> >>)

Manifests ==
  { FreshPkg, EslintPkg, EmptySectionPkg, UnsortedPkg, OldTypescriptPkg,
    CascadePkg, StoredOnlyPkg, LegacyPkg, TsMochaPkg, JestTsPkg,
    PrettierDepPkg }

\* a tsconfig.json the user edited
UserTsFile == [exists |-> TRUE, types |-> <<"node", "jest">>]

\* the directories the tool is started in: package.json and tsconfig.json
Projects == {<<m, NoTsFile>> : m \in Manifests}

\* the request lists of addFeatures and removeFeatures
Requests ==
  { <<"typedoc">>, <<"typescript">>, <<"eslint">>, <<"mocha">>, <<"tap">>,
    <<"prettier">>, <<"jest">>, <<"bogus">>, <<"typescript", "eslint">>,
    <<"typescript", "typedoc", "prettier", "jest">> }

\* the features that have a task of their own
TaskNames == {"typescript", "typedoc", "eslint", "mocha", "tap", "jest", "prettier"}

\* ------------------------------------------------------------------------
\* The state machine
\* ------------------------------------------------------------------------

VARIABLES
  xarcModuleDev,  \* the XarcModuleDev instance of makeTasks
  pc,             \* "ready", "done" after finish(), "failed" after a raise
  loaded,         \* the instance as the constructor left it
  hist,           \* the calls made before finish(): name and arguments
  writes,         \* number of writes of package.json
  last            \* the last call, the instance before it, what it called

vars == <<xarcModuleDev, pc, loaded, hist, writes, last>>

Call(op, req, rm) == [op |-> op, req |-> req, rm |-> rm]

Last(call, before, calls) == [call |-> call, before |-> before, calls |-> calls]

\* the state after the constructor returned dev
Constructed(dev) ==
  /\ xarcModuleDev = dev
  /\ pc = "ready"
  /\ loaded = dev
  /\ hist = << >>
  /\ writes = 0
  /\ last = Last(Call("constructor", << >>, FALSE), dev, << >>)

Init == \E p \in Projects : Constructed(construct(p[1], p[2]))

\* the state after a call that returned the instance dev
Returned(dev, call) ==
  /\ xarcModuleDev' = dev
  /\ pc' = IF dev.threw THEN "failed" ELSE "ready"
  /\ hist' = Append(hist, call)
  /\ last' = Last(call, xarcModuleDev, << >>)
  /\ UNCHANGED <<loaded, writes>>

AddFeatures(req) ==
  /\ pc = "ready" /\ Len(hist) < MaxOps
  /\ Returned(addFeatures(xarcModuleDev, req), Call("addFeatures", req, FALSE))

RemoveFeatures(req, fail) ==
  /\ pc = "ready" /\ Len(hist) < MaxOps
  /\ fail => Includes(Without(xarcModuleDev.features, req), "typescript")
  /\ Returned(removeFeatures(xarcModuleDev, req, fail),
              Call("removeFeatures", req, TRUE))

UpdateFeature(rm, f, fail) ==
  /\ pc = "ready" /\ Len(hist) < MaxOps
  /\ fail => Includes(IF rm THEN Without(xarcModuleDev.features, <<f>>)
                      ELSE Append(xarcModuleDev.features, f), "typescript")
             \/ (~rm /\ f = "typedoc")
  /\ Returned(updateFeature(xarcModuleDev, rm, <<f>>, fail),
              Call("updateFeature", <<f>>, rm))

\* the state after finish() returned r
Finished(r) ==
  /\ xarcModuleDev' = r.dev
  /\ pc' = IF r.dev.threw THEN "failed" ELSE "done"
  /\ writes' = writes + Cardinality({i \in 1..Len(r.calls) :
                                       r.calls[i][1] = "writeAppPkgJson"})
  /\ last' = Last(Call("finish", << >>, FALSE), xarcModuleDev, r.calls)
  /\ UNCHANGED <<loaded, hist>>

Finish(failAt) ==
  /\ pc = "ready"
  /\ failAt # 0 => xarcModuleDev.changedFeatures[failAt] \in WritingSetups
  /\ Finished(finish(xarcModuleDev, failAt))

\* the calls of the class: any addFeatures and removeFeatures, then finish()
Next ==
  \/ \E req \in Requests : AddFeatures(req)
  \/ \E req \in Requests, fail \in BOOLEAN : RemoveFeatures(req, fail)
  \/ \E failAt \in 0..Len(xarcModuleDev.changedFeatures) : Finish(failAt)

Spec == Init /\ [][Next]_vars

\* the feature tasks of makeTasks: updateFeature, then finish()
NextTasks ==
  \/ \E rm \in BOOLEAN, f \in TaskNames, fail \in BOOLEAN : UpdateFeature(rm, f, fail)
  \/ \E failAt \in 0..Len(xarcModuleDev.changedFeatures) : Finish(failAt)

SpecTasks == Init /\ [][NextTasks]_vars

\* loadAppPkg() called again on the instance, as the init task does
LoadAppPkg ==
  /\ pc = "ready" /\ Len(hist) < MaxOps
  /\ Returned(loadAppPkg(xarcModuleDev), Call("loadAppPkg", << >>, FALSE))

\* the calls of the class with reloads of the manifest between them
NextReload ==
  \/ \E req \in Requests : AddFeatures(req)
  \/ \E req \in Requests, fail \in BOOLEAN : RemoveFeatures(req, fail)
  \/ LoadAppPkg
  \/ \E failAt \in 0..Len(xarcModuleDev.changedFeatures) : Finish(failAt)

SpecReload == Init /\ [][NextReload]_vars

\* class Feature on its own: its methods applied to the manifest of the
\* instance, with any dependency mapping and either section

\* the dependency mappings given to update and remove: none, one that
\* overwrites a version, the keys of a whole section in unsorted order, two
\* unrelated keys
DepsMaps ==
  { << >>,
    << <<"chai", NewVer>> >>,
    << <<"tap", NewVer>>, <<"chai", NewVer>> >>,
    << <<"lodash", NewVer>>, <<"eslint", NewVer>> >> }

Sections == {"dependencies", "devDependencies"}

\* the features whose updateToPkg and removeFromPkg are called directly
PkgFeatures == {"typescript", "mocha", "eslint"}

FeatureCall(op, deps, section) ==
  [op |-> op, req |-> deps, rm |-> FALSE, section |-> section]

\* the state after a method of Feature returned the manifest pkg
Applied(pkg, call) ==
  Returned([xarcModuleDev EXCEPT !.appPkg = pkg], call)

FeatureUpdate(deps, section) ==
  /\ pc = "ready" /\ Len(hist) < MaxOps
  /\ Applied(update(xarcModuleDev.appPkg, deps, section),
             FeatureCall("update", deps, section))

FeatureRemove(deps, section) ==
  /\ pc = "ready" /\ Len(hist) < MaxOps
  /\ Applied(remove(xarcModuleDev.appPkg, deps, section),
             FeatureCall("remove", deps, section))

FeatureUpdateToPkg(f) ==
  /\ pc = "ready" /\ Len(hist) < MaxOps
  /\ Applied(updateToPkg(availableFeatures[f], xarcModuleDev.appPkg),
             FeatureCall("updateToPkg", <<f>>, "both"))

FeatureRemoveFromPkg(f) ==
  /\ pc = "ready" /\ Len(hist) < MaxOps
  /\ Applied(removeFromPkg(availableFeatures[f], xarcModuleDev.appPkg),
             FeatureCall("removeFromPkg", <<f>>, "both"))

NextFeature ==
  \/ \E deps \in DepsMaps, section \in Sections : FeatureUpdate(deps, section)
  \/ \E deps \in DepsMaps, section \in Sections : FeatureRemove(deps, section)
  \/ \E f \in PkgFeatures : FeatureUpdateToPkg(f)
  \/ \E f \in PkgFeatures : FeatureRemoveFromPkg(f)

SpecFeature == Init /\ [][NextFeature]_vars

\* ------------------------------------------------------------------------
\* The init task of makeTasks
\* ------------------------------------------------------------------------

\* initFeats, the option names the init task knows
InitFeats == <<"tap", "typescript", "eslint", "typedoc", "mocha", "prettier", "jest">>

\* defaults with prettier off, like eslint, mocha and tap
InitDefaultsPrettierOff ==
  << <<"prettier", FALSE>>, <<"typescript", TRUE>>, <<"typedoc", TRUE>>,
     <<"jest", TRUE>>, <<"mocha", FALSE>>, <<"eslint", FALSE>>, <<"tap", FALSE>> >>

\* argOpts of the init task: every declared option with its default
InitDefaults ==
  << <<"prettier", TRUE>>, <<"typescript", TRUE>>, <<"typedoc", TRUE>>,
     <<"jest", TRUE>>, <<"mocha", FALSE>>, <<"eslint", FALSE>>, <<"tap", FALSE>> >>

\* context.argOpts when the command line gave the options flags
ArgOpts(flags) == PutAll(InitDefaults, flags)

\* xtra: the option names that are no feature of the init task
UnknownOptions(argOpts) == Without(Keys(argOpts), InitFeats)

\* features: the known names whose option is true, in the order of initFeats
InitFeatures(argOpts) ==
  SelectSeq(InitFeats, LAMBDA f : HasKey(argOpts, f) /\ GetKey(argOpts, f))

\* setupXrunFile(); exists: the file is already there.  r is the instance
\* with the calls made so far.
setupXrunFile(r, exists) ==
  IF exists THEN r
  ELSE [r EXCEPT !.calls =
          Append(@, <<"writeFileSync",
                      IF hasFeature(r.dev, "typescript") THEN "xrun-tasks.ts"
                      ELSE "xrun-tasks.js">>)]

\* setupPublishingConfig(); lib: the directory lib exists
setupPublishingConfig(dev, lib) ==
  LET files == GetTop(dev.appPkg, "files")
      f1 == IF hasFeature(dev, "typescript") THEN Append(files, "dist") ELSE files
      f2 == IF lib THEN Append(f1, "lib") ELSE f1
  IN recordIfChanged(
       [dev EXCEPT !.appPkg = SetTop(@, "files", SortStrings(Uniq(f2)))],
       "updated files in your package.json for publishing")

\* setupGitIgnore(); exists: .gitignore is already there
setupGitIgnore(r, exists) ==
  IF exists THEN r
  ELSE [dev |-> recordAction(r.dev, Record("created .gitignore file", << >>)),
        calls |-> Append(r.calls, <<"writeFileSync", ".gitignore">>)]

\* setupPublishingConfig() on the instance of r
publishing(r, lib) == [r EXCEPT !.dev = setupPublishingConfig(@, lib)]

\* the three setups of the init task, after updateFeature returned r.dev.
\* env tells which files and directories exist.
initSetups(r, env) ==
  IF r.dev.threw THEN r
  ELSE setupGitIgnore(publishing(setupXrunFile(r, env.xrun), env.lib), env.gitignore)

\* the init task from loadAppPkg() to the call before finish()
initBeforeFinish(dev, argOpts, env, fail) ==
  initSetups([dev |-> updateFeature(loadAppPkg(dev), FALSE, InitFeatures(argOpts), fail),
              calls |-> << <<"loadAppPkg">> >>],
             env)

\* the calls of fin, the result of finish(), after the calls made before it
afterCalls(calls, fin) == [dev |-> fin.dev, calls |-> calls \o fin.calls]

\* finish() at the end of the init task
initFinish(mid, failAt) ==
  IF mid.dev.threw THEN mid ELSE afterCalls(mid.calls, finish(mid.dev, failAt))

\* a task that goes on when it finds options it does not know
InitTaskUnchecked(dev, argOpts, env, fail, failAt) ==
  initFinish(initBeforeFinish(dev, argOpts, env, fail), failAt)

\* the init task.  fail: the write of tsconfig.json in updateFeature raises;
\* failAt: the setup callback that raises in finish() (0: none)
initTask(dev, argOpts, env, fail, failAt) ==
  IF UnknownOptions(argOpts) # << >>
  THEN [dev |-> [dev EXCEPT !.threw = TRUE],
        calls |-> << <<"Error", "Unknown options for init task",
                       UnknownOptions(argOpts)>> >>]
  ELSE initFinish(initBeforeFinish(dev, argOpts, env, fail), failAt)

\* the options given on the command line of the init task
InitFlags ==
  { << >>,
    << <<"eslint", TRUE>> >>,
    << <<"typescript", FALSE>> >>,
    << <<"typescript", FALSE>>, <<"typedoc", FALSE>>, <<"jest", FALSE>>,
       <<"prettier", FALSE>> >>,
    << <<"jest", FALSE>>, <<"mocha", TRUE>> >>,
    << <<"tap", TRUE>>, <<"eslint", TRUE>> >>,
    << <<"bogus", TRUE>> >>,
    << <<"eslint", TRUE>>, <<"bogus", TRUE>>, <<"legacy", FALSE>> >> }

\* which of xrun-tasks.*, .gitignore and lib the directory holds
Envs == [xrun : BOOLEAN, gitignore : BOOLEAN, lib : BOOLEAN]

\* the state after a task returned r
TaskReturned(r, call) ==
  /\ xarcModuleDev' = r.dev
  /\ pc' = IF r.dev.threw THEN "failed" ELSE "done"
  /\ writes' = writes + Cardinality({i \in 1..Len(r.calls) :
                                       r.calls[i][1] = "writeAppPkgJson"})
  /\ hist' = Append(hist, call)
  /\ last' = Last(call, xarcModuleDev, r.calls)
  /\ UNCHANGED loaded

\* failAt names a setup callback that writes a file, in the finish() that
\* follows mid
MayFailAt(mid, failAt) ==
  failAt # 0 =>
    /\ ~mid.dev.threw
    /\ failAt <= Len(mid.dev.changedFeatures)
    /\ mid.dev.changedFeatures[failAt] \in WritingSetups

InitTask(flags, env, fail, failAt) ==
  /\ pc = "ready" /\ hist = << >>
  /\ fail => /\ UnknownOptions(ArgOpts(flags)) = << >>
             /\ {"typescript", "typedoc"}
                  \cap (Range(xarcModuleDev.features)
                          \cup Range(InitFeatures(ArgOpts(flags)))) # {}
  /\ failAt # 0 => UnknownOptions(ArgOpts(flags)) = << >>
  /\ MayFailAt(initBeforeFinish(xarcModuleDev, ArgOpts(flags), env, fail), failAt)
  /\ TaskReturned(initTask(xarcModuleDev, ArgOpts(flags), env, fail, failAt),
                  Call("init", ArgOpts(flags), FALSE))

NextInit ==
  \E flags \in InitFlags, env \in Envs, fail \in BOOLEAN,
     failAt \in 0..Cardinality(FeatureNames) : InitTask(flags, env, fail, failAt)

SpecInit == Init /\ [][NextInit]_vars

\* the feature tasks in directories where the user has a tsconfig.json
TsProjects == {<<m, UserTsFile>> : m \in Manifests}

InitTs == \E p \in TsProjects : Constructed(construct(p[1], p[2]))

SpecTsConfig == InitTs /\ [][NextTasks]_vars

\* ------------------------------------------------------------------------
\* The test tasks of makeTasks
\* ------------------------------------------------------------------------

NoTestFramework == <<"console.log", "No Test Framework setup">>

\* a test-only task that looks for tap before mocha
TestOnlyTapFirst(dev) ==
  IF hasFeature(dev, "tap") THEN <<"xrun.exec", "tap --no-coverage">>
  ELSE IF hasFeature(dev, "mocha")
       THEN <<"xrun.exec", "mocha --extension ts,js,tsx,jsx,cjs,mjs -c test/spec">>
  ELSE IF hasFeature(dev, "jest") THEN <<"xrun.exec", "jest">>
  ELSE NoTestFramework

\* the test-only task: what it calls
testOnly(dev) ==
  IF hasFeature(dev, "mocha")
  THEN <<"xrun.exec", "mocha --extension ts,js,tsx,jsx,cjs,mjs -c test/spec">>
  ELSE IF hasFeature(dev, "tap") THEN <<"xrun.exec", "tap --no-coverage">>
  ELSE IF hasFeature(dev, "jest") THEN <<"xrun.exec", "jest">>
  ELSE NoTestFramework

\* the test-cov task: what it calls
testCov(dev) ==
  IF hasFeature(dev, "mocha") THEN <<"xrun.exec", "nyc xrun -q test-only">>
  ELSE IF hasFeature(dev, "tap") THEN <<"xrun.exec", "tap">>
  ELSE IF hasFeature(dev, "jest") THEN <<"xrun.exec", "jest --coverage">>
  ELSE NoTestFramework

\* the state after a test task made the call called
Tested(name, called) ==
  /\ pc = "ready" /\ Len(hist) < MaxOps
  /\ hist' = Append(hist, Call(name, << >>, FALSE))
  /\ last' = Last(Call(name, << >>, FALSE), xarcModuleDev, <<called>>)
  /\ UNCHANGED <<xarcModuleDev, pc, loaded, writes>>

TestOnly == Tested("test-only", testOnly(xarcModuleDev))

TestCov == Tested("test-cov", testCov(xarcModuleDev))

\* feature commands and test tasks on one instance
NextTest ==
  \/ \E rm \in BOOLEAN, f \in TaskNames, fail \in BOOLEAN : UpdateFeature(rm, f, fail)
  \/ TestOnly
  \/ TestCov

SpecTest == Init /\ [][NextTest]_vars

\* addFeatures with request lists that hold a name without descriptor
\* among known names, and with lists of known names
MixedRequests ==
  { <<"eslint", "bogus">>, <<"bogus", "eslint">>,
    <<"typescript", "bogus", "mocha">>, <<"mocha">>, <<"typescript">>,
    <<"jest">> }

NextMixed == \E req \in MixedRequests : AddFeatures(req)

SpecMixed == Init /\ [][NextMixed]_vars

\* ------------------------------------------------------------------------
\* Properties
\* ------------------------------------------------------------------------

\* the active feature set
Active == Range(xarcModuleDev.features)

\* the active feature set before the last call
ActiveBefore == Range(last.before.features)

\* the last call was op and it returned normally
After(op) == last.call.op = op /\ pc = "ready"

\* C1: after any addFeatures call the active set is closed under the add
\* rules evaluated on the final set: typescript and eslint bring eslintTS,
\* typescript and jest bring jestTS, also when typescript came in only
\* because typedoc implies it.
C1_AddClosedOnFinalSet ==
  After("addFeatures") =>
    /\ {"typescript", "eslint"} \subseteq Active => "eslintTS" \in Active
    /\ {"typescript", "jest"} \subseteq Active => "jestTS" \in Active

\* C2: addFeatures yields an active set with eslintTS whenever current and
\* requested features together hold typescript and eslint, with jestTS
\* whenever they hold jest and typescript, and with typescript whenever
\* they hold typedoc.
C2_AddImplications ==
  After("addFeatures") =>
    LET union == ActiveBefore \cup Range(last.call.req)
    IN /\ {"typescript", "eslint"} \subseteq union => "eslintTS" \in Active
       /\ {"jest", "typescript"} \subseteq union => "jestTS" \in Active
       /\ "typedoc" \in union => "typescript" \in Active

\* C2 case: typedoc is requested without typescript, and typescript comes in
C2_Witness ==
  /\ After("addFeatures")
  /\ last.call.req = <<"typedoc">>
  /\ "typescript" \notin ActiveBefore
  /\ "typescript" \in Active

\* C3: after any removeFeatures call the active set holds none of the
\* requested names, eslintTS only with typescript and eslint, jestTS only
\* with typescript and jest, and typedoc only with typescript.
C3_RemoveCascade ==
  After("removeFeatures") =>
    /\ Active \cap Range(last.call.req) = {}
    /\ "eslintTS" \in Active => {"typescript", "eslint"} \subseteq Active
    /\ "jestTS" \in Active => {"typescript", "jest"} \subseteq Active
    /\ "typedoc" \in Active => "typescript" \in Active

\* C3 case: typescript is removed from {typescript, eslint, eslintTS, typedoc}
\* and only eslint is left
C3_Witness ==
  /\ After("removeFeatures")
  /\ last.call.req = <<"typescript">>
  /\ ActiveBefore = {"typescript", "eslint", "eslintTS", "typedoc"}
  /\ Active = {"eslint"}

\* the content of a section of the manifest: its packages and their versions
Section(pkg, key) == Range(GetTop(pkg, key))

\* the first two calls after load were addFeatures(f) and removeFeatures(f)
\* for one feature f that was not active at load, and both returned
AddedThenRemoved ==
  /\ pc = "ready"
  /\ Len(hist) = 2
  /\ hist[1].op = "addFeatures" /\ hist[2].op = "removeFeatures"
  /\ hist[1].req = hist[2].req
  /\ Len(hist[1].req) = 1
  /\ ~Includes(loaded.features, hist[1].req[1])

\* C4: for every loaded manifest and every feature f not active at load,
\* addFeatures(f) immediately followed by removeFeatures(f) leaves the
\* in-memory manifest identical to the manifest as loaded.
C4_AddRemoveRoundTrip ==
  AddedThenRemoved => xarcModuleDev.appPkg = loaded.appPkg

\* addFeatures(F) was called twice in a row and both calls returned
AddedTwice ==
  /\ After("addFeatures")
  /\ Len(hist) >= 2
  /\ hist[Len(hist) - 1] = hist[Len(hist)]

\* C5: calling addFeatures(F) twice in a row yields the same manifest content
\* as calling it once: the second call leaves the manifest as it found it.
C5_AddIdempotent ==
  AddedTwice => xarcModuleDev.appPkg = last.before.appPkg

\* the callbacks finish() makes for the instance dev when none raises:
\* teardowns in removal order, then setups in addition order
Callbacks(dev) ==
  [i \in 1..Len(dev.removedFeatures) |-> <<"finishRemove", dev.removedFeatures[i]>>]
  \o [i \in 1..Len(dev.changedFeatures) |-> <<"finishUpdate", dev.changedFeatures[i]>>]

IsWrite(c) == c[1] = "writeAppPkgJson"

\* C6: when a callback raises during finish(), finish() aborts and the
\* manifest file is not written; a write of the manifest file comes only
\* after every callback of every removed and changed feature has returned.
C6_RaiseLeavesManifestUnwritten ==
  last.call.op = "finish" =>
    /\ pc = "failed" =>
         /\ xarcModuleDev.packageJson = last.before.packageJson
         /\ \A i \in 1..Len(last.calls) : ~IsWrite(last.calls[i])
    /\ \A i \in 1..Len(last.calls) :
         IsWrite(last.calls[i]) =>
           SubSeq(last.calls, 1, i - 1) = Callbacks(last.before)

\* C6 case: a setup callback raised in a finish() that had a changed
\* manifest to save
C6_Witness ==
  /\ last.call.op = "finish" /\ pc = "failed"
  /\ Stringify(xarcModuleDev.appPkg) # loaded.existAppPkgData
  /\ xarcModuleDev.packageJson = loaded.packageJson

\* C7: finish() calls the teardown of every removed feature in removal
\* order, then the setup of every changed feature in addition order, and
\* persists the manifest only after all of them; a raise cuts the same
\* sequence short.
C7_FinishOrder ==
  last.call.op = "finish" =>
    LET made == SelectSeq(last.calls, LAMBDA c : ~IsWrite(c))
        all == Callbacks(last.before)
    IN /\ pc = "done" => made = all
       /\ Len(made) <= Len(all) /\ made = SubSeq(all, 1, Len(made))
       /\ \A i \in 1..Len(last.calls) :
            IsWrite(last.calls[i]) => i = Len(last.calls) /\ made = all

\* C7 case: finish() with two teardowns and a setup to call, and a write
C7_Witness ==
  /\ last.call.op = "finish" /\ pc = "done"
  /\ Len(last.before.removedFeatures) >= 2
  /\ Len(last.before.changedFeatures) >= 1
  /\ Len(last.calls) = Len(Callbacks(last.before)) + 1

\* C8: in one invocation the manifest file is written at most once, only by
\* finish(), and finish() writes it exactly when the serialization of the
\* in-memory manifest differs from the serialization recorded at load.
C8_WrittenOnceIffChanged ==
  /\ writes <= 1
  /\ last.call.op # "finish" =>
       writes = 0 /\ xarcModuleDev.packageJson = loaded.packageJson
  /\ pc = "done" =>
       /\ writes = 1 <=> Stringify(xarcModuleDev.appPkg) # loaded.existAppPkgData
       /\ writes = 0 => xarcModuleDev.packageJson = loaded.packageJson
       /\ writes = 1 => xarcModuleDev.packageJson = xarcModuleDev.appPkg

\* C8 case: finish() right after load finds nothing to write
C8_Witness ==
  /\ pc = "done"
  /\ hist = << >>
  /\ writes = 0
  /\ Stringify(xarcModuleDev.appPkg) = loaded.existAppPkgData

\* the dependencies or the devDependencies section is not as it was loaded
DepsDiffer ==
  \/ Section(xarcModuleDev.appPkg, "dependencies")
       # Section(loaded.appPkg, "dependencies")
  \/ Section(xarcModuleDev.appPkg, "devDependencies")
       # Section(loaded.appPkg, "devDependencies")

ReinstallNoticed ==
  \E i \in 1..Len(xarcModuleDev.actionRecords) :
    xarcModuleDev.actionRecords[i].msg = "Please run 'npm install'"

\* C9: whenever the dependencies or devDependencies section at finish()
\* differs from its content at load, finish() records the notice that the
\* dependencies must be reinstalled, whatever updateFeature calls came before.
C9_ReinstallNoticed ==
  (pc = "done" /\ DepsDiffer) => ReinstallNoticed

\* C10: the list of features with changed dependencies holds no feature twice
C10_DepsChangesNoDuplicate == NoDup(xarcModuleDev.depsChanges)

\* C11: in every reachable state, after load from any manifest and after
\* any addFeatures and removeFeatures calls, every name of the active
\* feature set is a key of the descriptor table.
C11_ActiveNamesInCatalog == Active \subseteq FeatureNames

\* C12: immediately after a reload with loadAppPkg() the active feature set
\* equals the set derived from the reloaded manifest, whatever addFeatures
\* and removeFeatures calls came before the reload.
C12_ReloadRecomputesActive ==
  After("loadAppPkg") =>
    Active = Range(updateFeaturesFromDeps(xarcModuleDev.appPkg))
               \cup Range(StoredFeatures(xarcModuleDev.appPkg))

\* the constructor has just returned
JustLoaded == hist = << >> /\ pc = "ready"

\* C13: after load a feature of the catalog is active if and only if its
\* name is in the stored feature list or every dependency key of its
\* descriptor is present in the manifest; the set is sorted, without
\* duplicates.
C13_LoadDerivation ==
  JustLoaded =>
    /\ \A f \in FeatureNames :
         f \in Active <=>
           \/ Includes(StoredFeatures(xarcModuleDev.appPkg), f)
           \/ checkPkg(availableFeatures[f], xarcModuleDev.appPkg)
    /\ IsSortedStrings(xarcModuleDev.features)

\* C14: after finish() returned normally the feature list stored in the
\* manifest's tool block equals the active feature set, in memory and in
\* the file, whatever addFeatures and removeFeatures calls came before.
C14_StoredFeaturesAreActive ==
  pc = "done" =>
    /\ StoredFeatures(xarcModuleDev.appPkg) = xarcModuleDev.features
    /\ StoredFeatures(xarcModuleDev.packageJson) = xarcModuleDev.features

\* C14 case: finish() after calls that changed a non-empty stored list
C14_Witness ==
  /\ pc = "done"
  /\ Len(hist) = 2
  /\ StoredFeatures(loaded.appPkg) # << >>
  /\ xarcModuleDev.features # StoredFeatures(loaded.appPkg)
  /\ StoredFeatures(xarcModuleDev.packageJson) = xarcModuleDev.features

\* the deps argument of the last call of update or remove, and the section
\* it was applied to, before and after
Deps == last.call.req

SectionBefore == GetTop(last.before.appPkg, last.call.section)

SectionAfter == GetTop(xarcModuleDev.appPkg, last.call.section)

\* C15: after Feature.update(manifest, D, section) with a non-empty D the
\* section's keys are the keys it had united with D's keys, in ascending
\* string order; every key of D has D's value, and every other key keeps
\* the value it had.
C15_UpdateMerges ==
  (After("update") /\ Deps # << >>) =>
    /\ HasTop(xarcModuleDev.appPkg, last.call.section)
    /\ Range(Keys(SectionAfter)) = Range(Keys(SectionBefore)) \cup Range(Keys(Deps))
    /\ IsSortedStrings(Keys(SectionAfter))
    /\ \A i \in 1..Len(Deps) : GetKey(SectionAfter, Deps[i][1]) = Deps[i][2]
    /\ \A i \in 1..Len(SectionBefore) :
         ~HasKey(Deps, SectionBefore[i][1]) =>
           GetKey(SectionAfter, SectionBefore[i][1]) = SectionBefore[i][2]

\* C15 case: D overwrites the version of one key of an unsorted section and
\* leaves another key alone
C15_Witness ==
  /\ After("update")
  /\ Deps = << <<"chai", NewVer>> >>
  /\ SectionBefore = << <<"tap", NewVer>>, <<"chai", OldVer>> >>
  /\ SectionAfter = << <<"chai", NewVer>>, <<"tap", NewVer>> >>

\* C16: Feature.update(manifest, deps, section) with an empty deps mapping
\* leaves the manifest untouched: the section's presence, keys, their order
\* and values are as before, whatever the section held.
C16_EmptyUpdateUntouched ==
  (After("update") /\ Deps = << >>) => xarcModuleDev.appPkg = last.before.appPkg

\* the section is absent from the manifest, or a non-empty mapping
AbsentOrNonEmpty(pkg, section) ==
  IF HasTop(pkg, section) THEN GetTop(pkg, section) # << >>
  ELSE pkg[Field(section)] = << >>

SortedSection(pkg, section) == IsSortedStrings(Keys(GetTop(pkg, section)))

\* C18: after any Feature.update or Feature.remove with a non-empty deps
\* mapping the section it was applied to, if present and non-empty, has its
\* keys in ascending string order with no key twice; after updateToPkg and
\* removeFromPkg this holds for dependencies and devDependencies.
C18_SectionsSorted ==
  /\ ((After("update") \/ After("remove")) /\ Deps # << >>) =>
       SortedSection(xarcModuleDev.appPkg, last.call.section)
  /\ (After("updateToPkg") \/ After("removeFromPkg")) =>
       \A section \in Sections : SortedSection(xarcModuleDev.appPkg, section)

\* C18 case: remove leaves two keys of a section that was not sorted
C18_Witness ==
  /\ After("remove")
  /\ Deps # << >>
  /\ ~IsSortedStrings(Keys(SectionBefore))
  /\ Len(SectionAfter) >= 2
  /\ IsSortedStrings(Keys(SectionAfter))

\* the features that left the active set in the last call
Leaving == ActiveBefore \ Active

\* the keys the descriptors of the features fs list for the section
DescriptorKeys(fs, section) ==
  UNION { Range(Keys(IF section = "dependencies" THEN availableFeatures[f].deps
                     ELSE availableFeatures[f].devDeps)) : f \in fs }

\* C19: removeFeatures deletes from dependencies and devDependencies exactly
\* the keys listed in the descriptors of the features that leave the active
\* set, requested and cascaded; every other entry is still there with its
\* value, and no key is added.
C19_RemoveDeletesDescriptorKeys ==
  After("removeFeatures") =>
    \A section \in Sections :
      Range(GetTop(xarcModuleDev.appPkg, section)) =
        { e \in Range(GetTop(last.before.appPkg, section)) :
            e[1] \notin DescriptorKeys(Leaving, section) }

\* C19 case: typescript is removed, typedoc and eslintTS leave with it, the
\* packages of all three are deleted and the eslint package stays
C19_Witness ==
  /\ After("removeFeatures")
  /\ last.call.req = <<"typescript">>
  /\ Leaving = {"typescript", "typedoc", "eslintTS"}
  /\ HasKey(GetTop(last.before.appPkg, "dependencies"), "tslib")
  /\ ~HasTop(xarcModuleDev.appPkg, "dependencies")
  /\ Range(Keys(GetTop(xarcModuleDev.appPkg, "devDependencies"))) = {"eslint"}

\* the names removeFeatures removes along with the requested ones
ImpliedRemovals ==
  LET rest == ActiveBefore \ Range(last.call.req)
  IN (IF {"typescript", "eslint"} \subseteq rest THEN {} ELSE {"eslintTS"})
     \cup (IF {"typescript", "jest"} \subseteq rest THEN {} ELSE {"jestTS"})
     \cup (IF "typescript" \in rest THEN {} ELSE {"typedoc"})

\* the last call was a removeFeatures in which no requested and no implied
\* name was active
NoOpRemove ==
  /\ last.call.op = "removeFeatures"
  /\ (Range(last.call.req) \cup ImpliedRemovals) \cap ActiveBefore = {}

\* C20: removeFeatures in which no requested or implied name is active
\* raises no error, records no removed feature and no action, and leaves
\* the manifest and the active set unchanged.
C20_NoOpRemoveSilent ==
  NoOpRemove =>
    /\ pc = "ready"
    /\ xarcModuleDev.removedFeatures = last.before.removedFeatures
    /\ xarcModuleDev.actionRecords = last.before.actionRecords
    /\ xarcModuleDev.appPkg = last.before.appPkg
    /\ xarcModuleDev.features = last.before.features

TsConfigUpdated == Record("updated tsconfig.json", << >>)

\* C20 as amended: such a removeFeatures records no removed feature and
\* leaves the manifest and the active set unchanged; the only action it may
\* record is the update of tsconfig.json, and it raises, records or writes
\* only when typescript is active: then it brings the types of the
\* tsconfig up to date and writes tsconfig.json.
C20_NoOpRemoveAmended ==
  NoOpRemove =>
    /\ xarcModuleDev.removedFeatures = last.before.removedFeatures
    /\ xarcModuleDev.appPkg = last.before.appPkg
    /\ xarcModuleDev.features = last.before.features
    /\ xarcModuleDev.actionRecords \in
         { last.before.actionRecords,
           Append(last.before.actionRecords, TsConfigUpdated) }
    /\ "typescript" \notin ActiveBefore =>
         /\ pc = "ready"
         /\ xarcModuleDev.actionRecords = last.before.actionRecords
         /\ xarcModuleDev.tsconfigJson = last.before.tsconfigJson
    /\ pc = "ready" /\ "typescript" \in ActiveBefore =>
         /\ xarcModuleDev.tsconfigJson.exists
         /\ xarcModuleDev.tsconfigJson.types = xarcModuleDev.tsConfig.types

\* C20 case: typescript and mocha are active, a feature that is not active
\* is removed, and the update of tsconfig.json is recorded
C20_Witness ==
  /\ NoOpRemove /\ pc = "ready"
  /\ {"typescript", "mocha"} \subseteq ActiveBefore
  /\ xarcModuleDev.actionRecords = Append(last.before.actionRecords, TsConfigUpdated)
  /\ xarcModuleDev.appPkg = last.before.appPkg

\* the options of the last init task that are no known feature flag
UnknownGiven == Range(Keys(last.call.req)) \ Range(InitFeats)

\* C21: the init task, given an option name that is not a known feature
\* flag, raises an error that lists the unknown names before the manifest
\* is reloaded or mutated, before any feature is added and before any file
\* is written.
C21_InitUnknownOption ==
  (last.call.op = "init" /\ UnknownGiven # {}) =>
    /\ pc = "failed"
    /\ Len(last.calls) = 1
    /\ last.calls[1][1] = "Error"
    /\ Range(last.calls[1][3]) = UnknownGiven
    /\ [xarcModuleDev EXCEPT !.threw = FALSE] = last.before
    /\ writes = 0

\* C21 case: init --eslint with two options it does not know
C21_Witness ==
  /\ last.call.op = "init"
  /\ UnknownGiven = {"bogus", "legacy"}
  /\ GetKey(last.call.req, "eslint")
  /\ pc = "failed"
  /\ xarcModuleDev.features = last.before.features

\* the init task ran with no option given, on a manifest with no active
\* feature
InitNoFlags ==
  /\ last.call.op = "init"
  /\ last.call.req = InitDefaults
  /\ ActiveBefore = {}

\* C22: the init task run with no flags on a manifest with no active
\* feature requests exactly typescript, typedoc and jest; eslint, mocha,
\* tap and prettier default to off and are not requested.
C22_InitDefaults ==
  InitNoFlags =>
    /\ {"typescript", "typedoc", "jest"} \subseteq Active
    /\ Active \cap {"eslint", "mocha", "tap", "prettier"} = {}

\* C22 as amended: it requests exactly typescript, typedoc, prettier and
\* jest, which bring jestTS; eslint, mocha and tap default to off.
C22_InitDefaultsAmended ==
  InitNoFlags =>
    /\ Active = {"typescript", "typedoc", "prettier", "jest", "jestTS"}
    /\ xarcModuleDev.changedFeatures =
         <<"typescript", "typedoc", "prettier", "jest", "jestTS">>

\* C22 case: init without options on a fresh manifest went through, and
\* prettier is active
C22_Witness ==
  /\ InitNoFlags
  /\ pc = "done"
  /\ loaded.appPkg = FreshPkg
  /\ "prettier" \in Active
  /\ HasKey(GetTop(xarcModuleDev.packageJson, "devDependencies"), "prettier")

\* C23: when tsconfig.json already exists, every setting the user has in it
\* is preserved by the tool: the tsconfig the tool holds after construction
\* and the file it writes after any add or remove command have the user's
\* value of compilerOptions.types.
C23_TsConfigPreserved ==
  loaded.tsconfigJson.exists =>
    /\ loaded.tsConfig.types = loaded.tsconfigJson.types
    /\ xarcModuleDev.tsconfigJson.types = loaded.tsconfigJson.types

\* the last call was a test task
AfterTest == last.call.op \in {"test-only", "test-cov"}

\* the commands that start each runner, without and with coverage
RunnerCommands ==
  [ mocha |-> {"mocha --extension ts,js,tsx,jsx,cjs,mjs -c test/spec",
               "nyc xrun -q test-only"},
    tap |-> {"tap --no-coverage", "tap"},
    jest |-> {"jest", "jest --coverage"} ]

\* the one call of the last test task started the given runner
Started(runner) ==
  /\ last.calls[1][1] = "xrun.exec"
  /\ last.calls[1][2] \in RunnerCommands[runner]

\* C24: the test-only and test-cov tasks run exactly one test runner chosen
\* from the active feature set at the time the task runs: mocha if mocha is
\* active, otherwise tap if tap is active, otherwise jest if jest is active;
\* when none is active no runner is started and a message is printed.
C24_TestRunnerChoice ==
  AfterTest =>
    /\ Len(last.calls) = 1
    /\ xarcModuleDev = last.before
    /\ IF "mocha" \in Active THEN Started("mocha")
       ELSE IF "tap" \in Active THEN Started("tap")
       ELSE IF "jest" \in Active THEN Started("jest")
       ELSE last.calls[1][1] = "console.log"

\* C24 case: mocha was added to a project with tap, and the test task runs
\* mocha
C24_Witness ==
  /\ AfterTest
  /\ {"mocha", "tap"} \subseteq Active
  /\ "mocha" \notin Range(loaded.features)
  /\ Started("mocha")

\* the last call was a remove command and it returned normally
AfterRemoveCommand == After("updateFeature") /\ last.call.rm

\* C25: after a remove command (removeFeatures followed by
\* refreshFeatureDeps) every dependency key of every feature that remains
\* active is present in its section, also a key that the descriptor of a
\* removed feature shares.
C25_RefreshRestoresKeys ==
  AfterRemoveCommand =>
    \A f \in Active :
      /\ f \in FeatureNames
      /\ checkPkg(availableFeatures[f], xarcModuleDev.appPkg)

\* C25 case: mocha is removed from a project with typescript; both list
\* source-map-support, and it is still there
C25_Witness ==
  /\ AfterRemoveCommand
  /\ last.call.req = <<"mocha">>
  /\ "mocha" \in ActiveBefore
  /\ "typescript" \in Active
  /\ HasKey(GetTop(xarcModuleDev.appPkg, "devDependencies"), "source-map-support")

\* C26: finish() invokes the setup callback only of features that are in
\* the active set when finish() runs, and the teardown callback only of
\* features that are not; a feature added and then removed does not get its
\* setup callback run after its teardown.
C26_CallbacksMatchActive ==
  last.call.op = "finish" =>
    \A i \in 1..Len(last.calls) :
      /\ last.calls[i][1] = "finishUpdate" => last.calls[i][2] \in ActiveBefore
      /\ last.calls[i][1] = "finishRemove" => last.calls[i][2] \notin ActiveBefore

\* C27: addFeatures given a name that has no descriptor raises an error and
\* leaves the manifest, the active feature set and the changed-feature list
\* exactly as they were before the call, whatever known names precede the
\* unknown one in the request.
C27_UnknownNameNoChange ==
  (last.call.op = "addFeatures" /\ ~(Range(last.call.req) \subseteq FeatureNames)) =>
    /\ pc = "failed"
    /\ xarcModuleDev.appPkg = last.before.appPkg
    /\ xarcModuleDev.features = last.before.features
    /\ xarcModuleDev.changedFeatures = last.before.changedFeatures

\* C28: addFeatures never removes a feature from the active set and
\* removeFeatures never adds one.
C28_Monotone ==
  /\ last.call.op = "addFeatures" => ActiveBefore \subseteq Active
  /\ last.call.op = "removeFeatures" => Active \subseteq ActiveBefore

\* addFeatures added to an active set that was not empty
C28_Witness ==
  After("addFeatures") /\ ActiveBefore # {} /\ Active # ActiveBefore

\* the top-level keys of the manifest other than the two dependency
\* sections, in their order, and their values
OtherKeys(pkg) ==
  [ order |-> SelectSeq(pkg.order,
                        LAMBDA k : k \notin {"dependencies", "devDependencies"}),
    name |-> pkg.name, scripts |-> pkg.scripts, files |-> pkg.files,
    tool |-> pkg.tool, prettier |-> pkg.prettier, jest |-> pkg.jest,
    mocha |-> pkg.mocha, tap |-> pkg.tap, nyc |-> pkg.nyc ]

\* C29: addFeatures and removeFeatures change no manifest key other than
\* dependencies and devDependencies: name, scripts, files, the tool config
\* blocks and the stored feature list are the same before and after the call.
C29_OnlyDepSectionsChange ==
  last.call.op \in {"addFeatures", "removeFeatures"} =>
    OtherKeys(xarcModuleDev.appPkg) = OtherKeys(last.before.appPkg)

\* a call changed the manifest of a project that has a stored feature list
C29_Witness ==
  /\ After("addFeatures")
  /\ xarcModuleDev.appPkg # last.before.appPkg
  /\ HasTop(last.before.appPkg, ToolKey)

\* C30: in every reachable state the active feature list is in ascending
\* string order and holds no name twice.
C30_ActiveSortedNoDup ==
  IsSortedStrings(xarcModuleDev.features) /\ NoDup(xarcModuleDev.features)

\* names were added that came in another order than the sorted one
C30_Witness ==
  /\ After("addFeatures")
  /\ ~IsSortedStrings(last.before.features \o last.call.req)
  /\ Active # ActiveBefore

====
